---- MODULE Spec2Model ----
(***************************************************************************)
(* The file explorer tree of mobius: the arena-backed Tree / Node store    *)
(* (src/file_explorer/data.rs) and the visible-order traversal with its    *)
(* windowing adapter (src/file_explorer/list.rs).                          *)
(***************************************************************************)
EXTENDS Integers, Sequences, FiniteSets, TLC

VARIABLES arena, view, stack, trav, yielded, last, store

vars == <<arena, view, stack, trav, yielded, last, store>>

\* ------------------------------------------------------------------ bounds
\* Largest arena length: create is not called when it would grow past it.
MaxNodes == 4
\* Largest number of path components below the root of a created node.
MaxDepth == 2
\* Largest start of a requested window; its length is at most one more.
MaxWindow == 3
\* Largest arena length of a tree that is cloned and of its clone.
MaxCloneNodes == 2
\* Largest arena length of a tree whose rows are asked for their names.
MaxNameNodes == 3
\* Largest number of discovery entries ingested in two orders.
MaxEntries == 3

\* ------------------------------------------------------------------- paths
\* A PathBuf is its component list plus whether it starts at the root
\* directory ("/").
AbsPath(c) == [abs |-> TRUE, comps |-> c]

RelPath(c) == [abs |-> FALSE, comps |-> c]

\* File names used below the root; directories below the root are named
\* DirName.
Names == {"a", "b"}

DirName == "a"

\* The base path the tree is constructed at.
RootPath == AbsPath(<<"var">>)

\* The relative paths of at most d components whose components before the
\* last are all DirName.
NameSeqs(d) ==
    {<<>>} \cup
    UNION { {[i \in 1..n |-> IF i < n THEN DirName ELSE last_name] :
                last_name \in Names} : n \in 1..d }

\* Paths at most MaxDepth components below the root (the root path included).
InTreePaths == {AbsPath(RootPath.comps \o s) : s \in NameSeqs(MaxDepth)}

\* Paths that do not have the root path as a prefix: "/", "/a/var", "var/a".
OutPaths ==
    { AbsPath(<<>>), AbsPath(<<"a", "var">>), RelPath(<<"var", "a">>) }

\* StripPrefixOk comparing the names only, "var/a" taken for "/var/a".
StripPrefixOk_NamesOnly(p, base) ==
    /\ Len(base.comps) <= Len(p.comps)
    /\ SubSeq(p.comps, 1, Len(base.comps)) = base.comps

\* Path::strip_prefix: Ok(rest) when base is a component-wise prefix of p.
StripPrefixOk(p, base) ==
    /\ p.abs = base.abs
    /\ Len(base.comps) <= Len(p.comps)
    /\ SubSeq(p.comps, 1, Len(base.comps)) = base.comps

StripPrefix(p, base) ==
    RelPath(SubSeq(p.comps, Len(base.comps) + 1, Len(p.comps)))

\* Path::components().count(): the root directory is a component of its own.
ComponentsCount(p) == Len(p.comps) + (IF p.abs THEN 1 ELSE 0)

\* Path::ancestors(): p, its parent, ..., down to "/" or "".
Ancestors(p) ==
    [i \in 1..(Len(p.comps) + 1) |->
        [abs |-> p.abs, comps |-> SubSeq(p.comps, 1, Len(p.comps) + 1 - i)]]

\* Path::join: an absolute argument replaces the base.
PathJoin(base, p) ==
    IF p.abs THEN p ELSE [abs |-> base.abs, comps |-> base.comps \o p.comps]

Take(s, n) == SubSeq(s, 1, IF n < Len(s) THEN n ELSE Len(s))

Reverse(s) == [i \in 1..Len(s) |-> s[Len(s) + 1 - i]]

\* ------------------------------------------------------------------- nodes
\* Option<TreeIndex>: TreeIndex is a NonZeroUsize, None is the value 0.
None == 0

ROOT == 1

NodeNew(path) ==
    [ path |-> path, is_dir |-> FALSE, is_open |-> FALSE,
      children |-> <<>>, children_open_count |-> 0 ]

\* The flags of the nodes handed to create: a plain file as Node::new leaves
\* it, and an opened directory.
NodeFlags ==
    { [is_dir |-> FALSE, is_open |-> FALSE], [is_dir |-> TRUE, is_open |-> TRUE] }

\* Tree::get(ix) is Some.
GetOk(ar, ix) == ix \in 1..Len(ar)

\* im::HashMap::get on a children map; the map is kept as the sequence of its
\* entries in iteration order.
ChildGet(children, key) ==
    IF \E i \in DOMAIN children : children[i].key = key
    THEN (children[CHOOSE i \in DOMAIN children : children[i].key = key]).ix
    ELSE None

\* im::HashMap::insert of an absent key: the entry lands at some position pos
\* of the iteration order; the other entries keep their relative order.
MapInsert(children, key, ix, pos) ==
    LET p == IF pos > Len(children) + 1 THEN Len(children) + 1 ELSE pos
    IN  SubSeq(children, 1, p - 1) \o <<[key |-> key, ix |-> ix]>>
            \o SubSeq(children, p, Len(children))

\* Push returning the zero-based slot of the node as its index.
Push_ZeroBased(ar, node) == [arena |-> Append(ar, node), ix |-> Len(ar)]

\* Tree::push: appends an unlinked node, returns its index.
Push(ar, node) == [arena |-> Append(ar, node), ix |-> Len(ar) + 1]

\* ------------------------------------------------------------ Tree::create
\* The ancestor paths create walks, root-exclusive, nearest the root first.
CreateAncestors(ar, node) ==
    LET discriminator == StripPrefix(node.path, ar[ROOT].path)
        n == ComponentsCount(discriminator)
        anc == Take(Ancestors(node.path), n)
    IN  Reverse([i \in 1..Len(anc) |-> PathJoin(ar[ROOT].path, anc[i])])

\* MaterializedNode without the is_dir override of the placeholder.
MaterializedNode_PlainPlaceholder(node, ancestor) ==
    IF node.path = ancestor THEN node ELSE NodeNew(ancestor)

\* The node pushed for a missing path component: the caller's node at the
\* terminal path, a directory placeholder above it.
MaterializedNode(node, ancestor) ==
    IF node.path = ancestor
    THEN node
    ELSE [NodeNew(ancestor) EXCEPT !.is_dir = TRUE]

\* LinkChild adding the entry to the root's map whatever the parent is.
LinkChild_UnderRoot(ar, cur_ix, ancestor, node_ix, pos) ==
    [ar EXCEPT ![ROOT].children = MapInsert(@, ancestor, node_ix, pos)]

\* The entry create adds to the children map of the node at cur_ix.
LinkChild(ar, cur_ix, ancestor, node_ix, pos) ==
    [ar EXCEPT ![cur_ix].children = MapInsert(@, ancestor, node_ix, pos)]

\* The for loop of create: follows or materializes each ancestor path.
RECURSIVE CreateWalk(_, _, _, _, _)
CreateWalk(ar, node, ancestors_rev, cur_ix, pos) ==
    IF ancestors_rev = <<>>
    THEN [arena |-> ar, ix |-> cur_ix]
    ELSE LET ancestor == Head(ancestors_rev)
             found == ChildGet(ar[cur_ix].children, ancestor)
         IN  IF found # None
             THEN CreateWalk(ar, node, Tail(ancestors_rev), found, pos)
             ELSE LET pushed == Push(ar, MaterializedNode(node, ancestor))
                      linked == LinkChild(pushed.arena, cur_ix, ancestor,
                                          pushed.ix, pos)
                  IN  CreateWalk(linked, node, Tail(ancestors_rev),
                                 pushed.ix, pos)

\* ------------------------------------------------------- Tree::update_node
\* ChildContribution without the is_open test.
ChildContribution_IgnoreOpen(child) == 1 + child.children_open_count

\* What one child adds to its parent's children_open_count.
ChildContribution(child) ==
    1 + (IF child.is_open THEN child.children_open_count ELSE 0)

\* The inner counting loop over children.values().
RECURSIVE CountChildren(_, _)
CountChildren(ar, children) ==
    IF children = <<>>
    THEN 0
    ELSE (IF GetOk(ar, Head(children).ix)
          THEN ChildContribution(ar[Head(children).ix])
          ELSE 0)
         + CountChildren(ar, Tail(children))

\* The "finds node" loop: follows path from the root, None when a link is
\* missing.
RECURSIVE Resolve(_, _, _)
Resolve(ar, cur_ix, path) ==
    IF path = <<>>
    THEN cur_ix
    ELSE LET found == ChildGet(ar[cur_ix].children, Head(path))
         IN  IF found = None THEN None ELSE Resolve(ar, found, Tail(path))

\* The ancestor paths update_node walks: the node's own path last.
UpdateAncestors(ar, ix) ==
    LET discriminator == StripPrefix(ar[ix].path, ar[ROOT].path)
        n == ComponentsCount(discriminator)
        anc == Take(Ancestors(discriminator), n)
    IN  Reverse([i \in 1..Len(anc) |-> PathJoin(ar[ROOT].path, anc[i])])

\* The outer loop, i = len - 1 down to 0: recomputes the node reached by the
\* first i ancestor paths; returns at the first unresolvable one.
RECURSIVE UpdateLevels(_, _, _)
UpdateLevels(ar, ancestors_rev, i) ==
    IF i < 0
    THEN ar
    ELSE LET cur_ix == Resolve(ar, ROOT, Take(ancestors_rev, i))
         IN  IF cur_ix = None
             THEN ar
             ELSE UpdateLevels(
                    [ar EXCEPT ![cur_ix].children_open_count =
                        CountChildren(ar, ar[cur_ix].children)],
                    ancestors_rev, i - 1)

\* update_node whose loop starts at the node itself instead of its parent.
UpdateNode_IncludesSelf(ar, ix) ==
    IF ~GetOk(ar, ix)
    THEN ar
    ELSE UpdateLevels(ar, UpdateAncestors(ar, ix), Len(UpdateAncestors(ar, ix)))

\* Tree::update_node: recomputes the proper ancestors of ix, nearest first.
UpdateNode(ar, ix) ==
    IF ~GetOk(ar, ix)
    THEN ar
    ELSE LET ancestors_rev == UpdateAncestors(ar, ix)
         IN  UpdateLevels(ar, ancestors_rev, Len(ancestors_rev) - 1)

\* Tree::create as a function of the tree, the node and the iteration
\* position its new map entry takes: the new tree and the returned index.
CreateResult(ar, node, pos) ==
    IF ~StripPrefixOk(node.path, ar[ROOT].path)
    THEN [arena |-> ar, ret |-> None]
    ELSE LET walked == CreateWalk(ar, node, CreateAncestors(ar, node), ROOT, pos)
         IN  [arena |-> UpdateNode(walked.arena, walked.ix), ret |-> walked.ix]

\* ------------------------------------------------------------ TraverseTree
\* TraverseTree::new: the stack holds the root frame.
TraverseSeed == <<[ix |-> ROOT, child_ix |-> 0]>>

\* NodeView holding the node of the top frame instead of its child.
NodeView_TopOfStack(stk, next_ix) ==
    [some |-> TRUE, ix |-> stk[Len(stk)].ix, level |-> Len(stk) - 1]

\* NodeView with the stack length as the level.
NodeView_LevelIsStackLen(stk, next_ix) ==
    [some |-> TRUE, ix |-> next_ix, level |-> Len(stk)]

\* The NodeView built for the child next_ix of the top frame.
NodeView(stk, next_ix) == [some |-> TRUE, ix |-> next_ix, level |-> Len(stk) - 1]

NoItem == [some |-> FALSE]

\* Descend without the is_open test.
Descend_Always(ar, next_ix) == TRUE

\* Whether next descends into the node it has just emitted.
Descend(ar, next_ix) == ar[next_ix].is_open

\* ChildFrame starting behind the first child.
ChildFrame_SkipFirst(next_ix) == [ix |-> next_ix, child_ix |-> 1]

\* The frame pushed for an open node: TraverseEl { ix: next_ix, child_ix: 0 }.
ChildFrame(next_ix) == [ix |-> next_ix, child_ix |-> 0]

\* Bump leaving the offset of the top frame as it was.
Bump_Not(stk) == stk

\* tos.child_ix += 1
Bump(stk) == [stk EXCEPT ![Len(stk)].child_ix = @ + 1]

\* The number of passes through the loop of next before it returns: every
\* pass but the last pops a frame.
RECURSIVE LoopPasses(_, _)
LoopPasses(ar, stk) ==
    IF stk = <<>>
    THEN 1
    ELSE IF stk[Len(stk)].child_ix < Len(ar[stk[Len(stk)].ix].children)
         THEN 1
         ELSE 1 + LoopPasses(ar, SubSeq(stk, 1, Len(stk) - 1))

\* One call of Iterator::next: the item returned and the stack left behind.
RECURSIVE TraverseNext(_, _)
TraverseNext(ar, stk) ==
    IF stk = <<>>
    THEN [out |-> NoItem, stack |-> stk]
    ELSE LET tos == stk[Len(stk)]
             values == ar[tos.ix].children
         IN  IF tos.child_ix < Len(values)
             THEN LET next_ix == values[tos.child_ix + 1].ix
                      bumped == Bump(stk)
                  IN  [ out |-> NodeView(stk, next_ix),
                        stack |-> IF Descend(ar, next_ix)
                                  THEN Append(bumped, ChildFrame(next_ix))
                                  ELSE bumped ]
             ELSE TraverseNext(ar, SubSeq(stk, 1, Len(stk) - 1))

\* The items of an iterator run to exhaustion from the given stack.
RECURSIVE Collect(_, _)
Collect(ar, stk) ==
    LET r == TraverseNext(ar, stk)
    IN  IF r.out.some THEN <<r.out>> \o Collect(ar, r.stack) ELSE <<>>

\* Iterator::skip(n): n calls of next whose items are dropped (stops at the
\* first None).
RECURSIVE SkipItems(_, _, _)
SkipItems(ar, stk, n) ==
    IF n = 0
    THEN stk
    ELSE LET r == TraverseNext(ar, stk)
         IN  IF r.out.some THEN SkipItems(ar, r.stack, n - 1) ELSE r.stack

\* Iterator::take(n): at most n further items.
RECURSIVE TakeItems(_, _, _)
TakeItems(ar, stk, n) ==
    IF n = 0
    THEN <<>>
    ELSE LET r == TraverseNext(ar, stk)
         IN  IF r.out.some
             THEN <<r.out>> \o TakeItems(ar, r.stack, n - 1)
             ELSE <<>>

\* TreeView::total_len
TotalLen(ar) == ar[ROOT].children_open_count + 1

\* TreeView::slice(start..start + len)
SliceItems(ar, start, len) == TakeItems(ar, SkipItems(ar, TraverseSeed, start), len)

\* ----------------------------------------------------------------- actions
\* No Rc<Node> has been allocated apart from the nodes of arena.
NoStore == [heap |-> <<>>, trees |-> <<>>, todo |-> <<>>]

\* Tree::new(base): the arena holds the base node alone; the tree has not
\* been handed to a TreeView and no iterator exists.
Init ==
    /\ \E open \in BOOLEAN :
         arena = <<[NodeNew(RootPath) EXCEPT !.is_dir = TRUE, !.is_open = open]>>
    /\ view = FALSE
    /\ stack = <<>>
    /\ trav = "none"
    /\ yielded = <<>>
    /\ last = [op |-> "new"]
    /\ store = NoStore

\* tree.create(Node { is_dir, is_open, ..Node::new(path) })
Create ==
    /\ ~view
    /\ \E path \in InTreePaths \cup OutPaths, flags \in NodeFlags,
          pos \in 1..Len(arena) :
         LET node == [NodeNew(path) EXCEPT !.is_dir = flags.is_dir,
                                           !.is_open = flags.is_open]
         IN  \E r \in {CreateResult(arena, node, pos)} :
               /\ Len(r.arena) <= MaxNodes
               /\ arena' = r.arena
               /\ last' = [op |-> "create", node |-> node, ret |-> r.ret,
                           pre_len |-> Len(arena)]
    /\ UNCHANGED <<view, stack, trav, yielded, store>>

\* Rc::make_mut(tree.get_mut(ix)?).is_open = open
SetOpen ==
    /\ ~view
    /\ \E ix \in 1..Len(arena), open \in BOOLEAN :
         /\ arena' = [arena EXCEPT ![ix].is_open = open]
         /\ last' = [op |-> "set_open", ix |-> ix, open |-> open]
    /\ UNCHANGED <<view, stack, trav, yielded, store>>

\* TreeView::new(tree): the tree moves into the virtual list, which only
\* reads it.
TreeViewNew ==
    /\ ~view
    /\ view' = TRUE
    /\ last' = [op |-> "view"]
    /\ UNCHANGED <<arena, stack, trav, yielded, store>>

\* TraverseTree::new(&self.tree)
TraverseNew ==
    /\ view
    /\ trav = "none"
    /\ stack' = TraverseSeed
    /\ trav' = "live"
    /\ yielded' = <<>>
    /\ last' = [op |-> "traverse"]
    /\ UNCHANGED <<arena, view, store>>

\* iterator.next()
Next_ ==
    /\ trav \in {"live", "done"}
    /\ \E r \in {TraverseNext(arena, stack)} :
         /\ stack' = r.stack
         /\ yielded' = IF r.out.some THEN Append(yielded, r.out) ELSE yielded
         /\ trav' = IF r.out.some THEN trav ELSE "done"
         /\ last' = [op |-> "next", ret |-> r.out]
    /\ UNCHANGED <<arena, view, store>>

\* The iterator is dropped.
TraverseDrop ==
    /\ trav \in {"live", "done"}
    /\ stack' = <<>>
    /\ trav' = "none"
    /\ yielded' = <<>>
    /\ last' = [op |-> "drop"]
    /\ UNCHANGED <<arena, view, store>>

\* self.slice(start..start + len), consumed to its end.
Slice ==
    /\ view
    /\ trav = "none"
    /\ \E start \in 0..MaxWindow, len \in 0..(MaxWindow + 1) :
         last' = [op |-> "slice", start |-> start, len |-> len,
                  out |-> SliceItems(arena, start, len)]
    /\ UNCHANGED <<arena, view, stack, trav, yielded, store>>

Next ==
    \/ Create \/ SetOpen \/ TreeViewNew
    \/ TraverseNew \/ Next_ \/ TraverseDrop \/ Slice

Spec == Init /\ [][Next]_vars

\* The program without writes of is_open after construction: the tree is
\* built by create calls alone.
NextCreate ==
    \/ Create \/ TreeViewNew
    \/ TraverseNew \/ Next_ \/ TraverseDrop \/ Slice

SpecCreate == Init /\ [][NextCreate]_vars

\* The program whose client, once it holds an iterator, goes on calling next
\* for as long as a call changes anything.
FairSpec == Spec /\ WF_vars(Next_)

\* ------------------------------------------- closing and reopening a node
\* Rc::make_mut(tree.get_mut(ix)?).is_open = open, as a function of the tree.
WithOpen(ar, ix, open) == [ar EXCEPT ![ix].is_open = open]

\* TraverseTree::new(&tree) collected to its end: the rows a client sees.
VisibleRows(ar) == Collect(ar, TraverseSeed)

\* A client closes a node it sees in the list, remembering the rows it saw.
CloseNode ==
    /\ ~view
    /\ \E rows \in {VisibleRows(arena)} :
         \E i \in DOMAIN rows :
           /\ arena' = WithOpen(arena, rows[i].ix, FALSE)
           /\ last' = [op |-> "close", ix |-> rows[i].ix,
                       was_open |-> arena[rows[i].ix].is_open, before |-> rows]
    /\ UNCHANGED <<view, stack, trav, yielded, store>>

\* The client opens the node it has just closed, with no call in between.
ReopenNode ==
    /\ ~view
    /\ last.op = "close"
    /\ arena' = WithOpen(arena, last.ix, TRUE)
    /\ last' = [op |-> "reopen", ix |-> last.ix, was_open |-> last.was_open,
                before |-> last.before, closed |-> VisibleRows(arena)]
    /\ UNCHANGED <<view, stack, trav, yielded, store>>

NextToggle == Create \/ CloseNode \/ ReopenNode

SpecToggle == Init /\ [][NextToggle]_vars

\* ------------------------------------------------- Rc<Node> and Tree::clone
\* The arena is an im::Vector<Rc<Node>>: store.heap holds the Node behind each
\* Rc allocation, store.trees[k] the Rc pointers of tree k in arena order.
\* Cloning an im::Vector gives a vector of its own (copy-on-write inside im)
\* whose Rc elements point to the same allocations.

\* The nodes of tree k, read through its pointers.
Deref(st, k) == [i \in 1..Len(st.trees[k]) |-> st.heap[st.trees[k][i]]]

\* Rc::strong_count > 1: another tree holds the allocation of slot i of tree k.
Shared(st, k, i) ==
    \E j \in DOMAIN st.trees : \E n \in DOMAIN st.trees[j] :
        j # k /\ st.trees[j][n] = st.trees[k][i]

\* Rc::make_mut writing through a shared allocation instead of cloning it.
MakeMut_InPlace(st, k, i) == st

\* Rc::make_mut on slot i of tree k: a shared node is cloned into a new
\* allocation that the slot then points to.
MakeMut(st, k, i) ==
    IF Shared(st, k, i)
    THEN [st EXCEPT !.heap = Append(@, st.heap[st.trees[k][i]]),
                    !.trees[k][i] = Len(st.heap) + 1]
    ELSE st

\* Rc::new(node) pushed at the end of tree k.
PushRc(st, k, node) ==
    [st EXCEPT !.heap = Append(@, node),
               !.trees[k] = Append(@, Len(st.heap) + 1)]

\* Assignment through the &mut Node that Rc::make_mut returns.
WriteNode(st, k, i, node) ==
    LET owned == MakeMut(st, k, i)
    IN  [owned EXCEPT !.heap[owned.trees[k][i]] = node]

\* The slots create and update_node take by Rc::make_mut: the parent that
\* gets the new link and every ancestor of the returned node.
MadeMut(old, r, i) ==
    \/ r.arena[i] # old[i]
    \/ /\ r.ret # None
       /\ Len(old[i].path.comps) < Len(r.arena[r.ret].path.comps)
       /\ SubSeq(r.arena[r.ret].path.comps, 1, Len(old[i].path.comps))
            = old[i].path.comps

\* The writes of one create call on tree k, slot by slot from slot i on.
RECURSIVE CommitCreate(_, _, _, _, _)
CommitCreate(st, k, old, r, i) ==
    IF i > Len(r.arena)
    THEN st
    ELSE CommitCreate(
           IF i > Len(old) THEN PushRc(st, k, r.arena[i])
           ELSE IF MadeMut(old, r, i) THEN WriteNode(st, k, i, r.arena[i])
           ELSE st,
           k, old, r, i + 1)

\* let mut tree = Tree::new(..): one tree, not yet cloned.
InitClone ==
    /\ \E open \in BOOLEAN :
         store = [heap |-> <<[NodeNew(RootPath) EXCEPT !.is_dir = TRUE,
                                                        !.is_open = open]>>,
                  trees |-> << <<1>> >>, todo |-> <<>>]
    /\ arena = <<>>
    /\ view = FALSE
    /\ stack = <<>>
    /\ trav = "none"
    /\ yielded = <<>>
    /\ last = [op |-> "new"]

\* let t2 = t1.clone()
CloneTree ==
    /\ Len(store.trees) = 1
    /\ store' = [store EXCEPT !.trees = <<store.trees[1], store.trees[1]>>]
    /\ last' = [op |-> "clone"]
    /\ UNCHANGED <<arena, view, stack, trav, yielded>>

\* trees[k].create(node)
CloneCreate ==
    /\ \E k \in DOMAIN store.trees, path \in InTreePaths \cup OutPaths,
          flags \in NodeFlags, pos \in 1..MaxCloneNodes :
         LET node == [NodeNew(path) EXCEPT !.is_dir = flags.is_dir,
                                           !.is_open = flags.is_open]
             old == Deref(store, k)
         IN  \E r \in {CreateResult(old, node, pos)} :
               /\ Len(r.arena) <= MaxCloneNodes
               /\ store' = CommitCreate(store, k, old, r, 1)
               /\ last' = [op |-> "clone_create", tree |-> k, ret |-> r.ret]
    /\ UNCHANGED <<arena, view, stack, trav, yielded>>

\* Rc::make_mut(trees[k].get_mut(ix)?).is_open = open
CloneSetOpen ==
    /\ \E k \in DOMAIN store.trees :
         \E ix \in DOMAIN store.trees[k], open \in BOOLEAN :
           /\ store' = WriteNode(store, k, ix,
                                 [Deref(store, k)[ix] EXCEPT !.is_open = open])
           /\ last' = [op |-> "clone_set_open", tree |-> k, ix |-> ix]
    /\ UNCHANGED <<arena, view, stack, trav, yielded>>

NextClone == CloneTree \/ CloneCreate \/ CloneSetOpen

SpecClone == InitClone /\ [][NextClone]_vars

\* ---------------------------------------------------- NodeView::file_name
\* A final component "..", which Path::file_name has no name for.
ParentDir == ".."

\* A file name whose bytes are not valid UTF-8 (OsStr::to_str gives None).
NonUtf8Name == "<FF>"

\* The names a discovered entry can have.
EntryNames == {DirName, ParentDir, NonUtf8Name}

\* Entries one or two components below the root, under any of those names.
NamedPaths ==
    {AbsPath(RootPath.comps \o <<n>>) : n \in EntryNames} \cup
    {AbsPath(RootPath.comps \o <<DirName, n>>) : n \in EntryNames}

\* Option<&OsStr> and Option<&str>.
NoName == [some |-> FALSE]

SomeName(n) == [some |-> TRUE, name |-> n]

\* Path::file_name: None for "/" and "", and for a path that ends in "..".
PathFileName(p) ==
    IF p.comps = <<>> \/ p.comps[Len(p.comps)] = ParentDir
    THEN NoName
    ELSE SomeName(p.comps[Len(p.comps)])

\* OsStr::to_str: None unless the name is valid UTF-8.
ToStr(name) == IF name = NonUtf8Name THEN NoName ELSE SomeName(name)

\* NodeView::file_name returns &str: .and_then(to_str).expect("path") aborts
\* the thread on None, there is no error value to return.
FileName(p) ==
    LET os == PathFileName(p)
        s == IF os.some THEN ToStr(os.name) ELSE NoName
    IN  IF s.some THEN [kind |-> "ok", name |-> s.name] ELSE [kind |-> "panic"]

InitName ==
    /\ arena = <<[NodeNew(RootPath) EXCEPT !.is_dir = TRUE, !.is_open = TRUE]>>
    /\ view = FALSE
    /\ stack = <<>>
    /\ trav = "none"
    /\ yielded = <<>>
    /\ last = [op |-> "new"]
    /\ store = NoStore

\* tree.create(Node { path, is_dir, is_open, .. }) for a discovered entry.
NameCreate ==
    /\ \E path \in NamedPaths, flags \in NodeFlags, pos \in 1..Len(arena) :
         LET node == [NodeNew(path) EXCEPT !.is_dir = flags.is_dir,
                                           !.is_open = flags.is_open]
         IN  \E r \in {CreateResult(arena, node, pos)} :
               /\ Len(r.arena) <= MaxNameNodes
               /\ arena' = r.arena
               /\ last' = [op |-> "create", ret |-> r.ret]
    /\ UNCHANGED <<view, stack, trav, yielded, store>>

\* The list view labels a row: item.file_name() on an item of the traversal.
FileNameCall ==
    /\ \E rows \in {VisibleRows(arena)} :
         \E i \in DOMAIN rows :
           last' = [op |-> "file_name", ix |-> rows[i].ix,
                    out |-> FileName(arena[rows[i].ix].path)]
    /\ UNCHANGED <<arena, view, stack, trav, yielded, store>>

NextName == NameCreate \/ FileNameCall

SpecName == InitName /\ [][NextName]_vars

\* ------------------------------------------- ingest of a directory walk
\* The entries a walk can report: a path below the root with the flags of a
\* file or of a directory.
Entries ==
    {[NodeNew(path) EXCEPT !.is_dir = flags.is_dir, !.is_open = flags.is_open] :
        path \in InTreePaths \ {RootPath}, flags \in NodeFlags}

\* The sets of at most MaxEntries entries with pairwise distinct paths in
\* which an entry that has another entry below it is a directory.
EntrySets ==
    {E \in SUBSET Entries :
        /\ Cardinality(E) <= MaxEntries
        /\ \A e, f \in E :
             /\ e.path = f.path => e = f
             /\ (/\ Len(e.path.comps) < Len(f.path.comps)
                 /\ SubSeq(f.path.comps, 1, Len(e.path.comps)) = e.path.comps)
                  => e.is_dir}

\* Two trees at the same root are about to be fed the same entries, each in
\* an order of its own: store.trees[k] is the arena of tree k and
\* store.todo[k] the entries tree k has not been given yet.
InitOrder ==
    /\ \E E \in EntrySets :
         LET base == <<[NodeNew(RootPath) EXCEPT !.is_dir = TRUE, !.is_open = TRUE]>>
         IN  store = [heap |-> <<>>, trees |-> <<base, base>>, todo |-> <<E, E>>]
    /\ arena = <<>>
    /\ view = FALSE
    /\ stack = <<>>
    /\ trav = "none"
    /\ yielded = <<>>
    /\ last = [op |-> "new"]

\* The body of the for loop of app_view on tree k: tree.create(entry).
Ingest ==
    /\ \E k \in DOMAIN store.trees :
         \E e \in store.todo[k], pos \in 1..Len(store.trees[k]) :
           /\ store' = [store EXCEPT
                          !.trees[k] = CreateResult(store.trees[k], e, pos).arena,
                          !.todo[k] = @ \ {e}]
           /\ last' = [op |-> "ingest", tree |-> k]
    /\ UNCHANGED <<arena, view, stack, trav, yielded>>

NextOrder == Ingest

SpecOrder == InitOrder /\ [][NextOrder]_vars

\* ----------------------------------------- the scenario of the unit tests
\* The nodes test_update_node and test_traversal create, in order.
TestDir(names, open) ==
    [NodeNew(AbsPath(<<"var">> \o names)) EXCEPT !.is_dir = TRUE, !.is_open = open]

TestFile(names) == NodeNew(AbsPath(<<"var">> \o names))

TestScript ==
    << TestDir(<<"opt">>, FALSE),
       TestFile(<<"opt", "hidden">>),
       TestFile(<<"opt", "hidden2">>),
       TestFile(<<"opt", "hidden3">>),
       TestDir(<<"games">>, TRUE),
       TestFile(<<"games", "battleblock">>),
       TestFile(<<"games", "spelunky">>),
       TestFile(<<"games", "minesweeper">>) >>

\* Tree::new(Node { is_dir: true, is_open: true, ..Node::new("/var") })
InitTest == Init /\ arena[ROOT].is_open

\* The next tree.create call of the test: each call adds one node, so the
\* arena length tells which call is next.
TestCreate ==
    /\ ~view
    /\ Len(arena) <= Len(TestScript)
    /\ \E pos \in 1..Len(arena) :
         \E r \in {CreateResult(arena, TestScript[Len(arena)], pos)} :
           /\ arena' = r.arena
           /\ last' = [op |-> "create", node |-> TestScript[Len(arena)],
                       ret |-> r.ret, pre_len |-> Len(arena)]
    /\ UNCHANGED <<view, stack, trav, yielded, store>>

NextTest ==
    \/ TestCreate \/ TreeViewNew
    \/ TraverseNew \/ Next_ \/ TraverseDrop \/ Slice

SpecTest == InitTest /\ [][NextTest]_vars

\* ------------------------------------------------- definitions for claims
Root == arena[ROOT]

\* The indices a children map holds.
ChildIxs(ar, ix) == {ar[ix].children[i].ix : i \in DOMAIN ar[ix].children}

\* p is a proper prefix of q, component-wise.
ProperPrefix(p, q) ==
    /\ p.abs = q.abs
    /\ Len(p.comps) < Len(q.comps)
    /\ SubSeq(q.comps, 1, Len(p.comps)) = p.comps

\* The parent path of a path with at least one component.
ParentPath(p) == [abs |-> p.abs, comps |-> SubSeq(p.comps, 1, Len(p.comps) - 1)]

PathPresent(ar, p) == \E i \in 1..Len(ar) : ar[i].path = p

\* The nodes whose path is a proper prefix of the path of ix.
ProperAncestors(ar, ix) ==
    {j \in 1..Len(ar) : ProperPrefix(ar[j].path, ar[ix].path)}

\* The number of proper descendants of a node whose ancestors strictly below
\* that node are all open, counted from the children maps and the flags alone.
RECURSIVE VisibleSum(_, _)
VisibleSum(ar, children) ==
    IF children = <<>>
    THEN 0
    ELSE LET c == Head(children).ix
         IN  1 + (IF ar[c].is_open THEN VisibleSum(ar, ar[c].children) ELSE 0)
               + VisibleSum(ar, Tail(children))

VisibleCount(ar, ix) == VisibleSum(ar, ar[ix].children)

\* Sum over the children c of (1 + (c.children_open_count if c.is_open)).
RECURSIVE CachedSum(_, _)
CachedSum(ar, children) ==
    IF children = <<>>
    THEN 0
    ELSE LET c == ar[Head(children).ix]
         IN  1 + (IF c.is_open THEN c.children_open_count ELSE 0)
               + CachedSum(ar, Tail(children))

\* The sequence a fresh traversal of the tree yields.
FullTraversal(ar) == Collect(ar, TraverseSeed)

C2_ToggleRecomputes ==
    (last.op = "set_open" /\ last.ix # ROOT) =>
        /\ \A j \in ProperAncestors(arena, last.ix) :
             arena[j].children_open_count = VisibleCount(arena, j)
        /\ TotalLen(arena) - 1 = Len(FullTraversal(arena))

\* C3: a create whose path is already in the tree returns the index of the
\* node holding that path and changes no node and no arena slot.
C3_CreateIdempotent ==
    [][ (last'.op = "create" /\ PathPresent(arena, last'.node.path)) =>
            /\ last'.ret \in 1..Len(arena)
            /\ arena[last'.ret].path = last'.node.path
            /\ arena' = arena ]_vars

\* The absent trailing components of a path below the root: the ancestor paths
\* (the path itself included) not in the tree.
AbsentChain(ar, path) ==
    {n \in (Len(ar[ROOT].path.comps) + 1)..Len(path.comps) :
        ~PathPresent(ar, AbsPath(SubSeq(path.comps, 1, n)))}

\* C4: a create of a path below the root whose last m components are absent
\* appends exactly m nodes, in path order; the intermediate ones are closed
\* directory placeholders linking only the next node, the terminal one holds
\* the caller's node; each new node is an entry, keyed by its own path, of the
\* children map of the node holding its parent path; the walk from the root
\* through children lookups ends at the returned index.
C4_AncestorSynthesis ==
    [][ (last'.op = "create" /\ ProperPrefix(Root.path, last'.node.path)) =>
          LET node == last'.node
              absent == AbsentChain(arena, node.path)
              m == Cardinality(absent)
              first == Len(node.path.comps) - m
          IN  /\ Len(arena') = Len(arena) + m
              /\ \A j \in 1..m :
                   LET ix == Len(arena) + j
                       path == AbsPath(SubSeq(node.path.comps, 1, first + j))
                   IN  /\ arena'[ix].path = path
                       /\ \E p \in 1..Len(arena') :
                            /\ arena'[p].path = ParentPath(path)
                            /\ ChildGet(arena'[p].children, path) = ix
                       /\ IF j < m
                          THEN /\ arena'[ix].is_dir
                               /\ ~arena'[ix].is_open
                               /\ ChildIxs(arena', ix) = {ix + 1}
                          ELSE /\ arena'[ix].is_dir = node.is_dir
                               /\ arena'[ix].is_open = node.is_open
                               /\ arena'[ix].children = <<>>
              /\ last'.ret \in 1..Len(arena')
              /\ arena'[last'.ret].path = node.path
              /\ Resolve(arena', ROOT,
                    [n \in 1..(Len(node.path.comps) - Len(Root.path.comps)) |->
                        AbsPath(SubSeq(node.path.comps, 1,
                                       Len(Root.path.comps) + n))])
                   = last'.ret ]_vars

\* A create has just appended a placeholder and, after it, an opened
\* directory as the terminal node.
C4_Witness ==
    /\ last.op = "create"
    /\ Len(arena) = last.pre_len + 2
    /\ last.ret = Len(arena)
    /\ last.node.is_open
    /\ ~arena[Len(arena) - 1].is_open

\* The path has the root path as a prefix (it is the root path or below it).
UnderRoot(path) ==
    /\ path.abs = Root.path.abs
    /\ \E n \in 0..Len(path.comps) : SubSeq(path.comps, 1, n) = Root.path.comps

\* C5: a create of a path that does not have the root path as a prefix
\* returns None and leaves the arena as it was.
C5_OutOfTreeNoMutation ==
    [][ (last'.op = "create" /\ ~UnderRoot(last'.node.path)) =>
            /\ last'.ret = None
            /\ arena' = arena ]_vars

\* A create of a relative path has just been refused on a tree of several
\* nodes.
C5_Witness ==
    /\ last.op = "create"
    /\ ~last.node.path.abs
    /\ last.ret = None
    /\ Len(arena) >= 3

\* The items the live iterator has yielded, and the items of the last slice.
YieldedItems == {yielded[i] : i \in DOMAIN yielded}

SlicedItems ==
    IF last.op = "slice" THEN {last.out[i] : i \in DOMAIN last.out} ELSE {}

\* C6 as stated: every yielded node has is_open on all its proper ancestors,
\* the root included.
C6_AllAncestorsOpen ==
    \A item \in YieldedItems :
        \A j \in ProperAncestors(arena, item.ix) : arena[j].is_open

\* C6 amended: every yielded node has is_open on all its proper ancestors
\* other than the root; the root's own flag is not consulted.
C6_NonRootAncestorsOpen ==
    \A item \in YieldedItems \cup SlicedItems :
        \A j \in ProperAncestors(arena, item.ix) \ {ROOT} : arena[j].is_open

\* A traversal has run to its end on a tree whose root is closed and which
\* holds a closed node with a child: the root's children were yielded, the
\* child of the closed node was not.
C6_Witness ==
    /\ trav = "done"
    /\ ~Root.is_open
    /\ Len(yielded) >= 2
    /\ \E ix \in 2..Len(arena) :
         /\ ~arena[ix].is_open
         /\ ChildIxs(arena, ix) # {}
         /\ \A c \in ChildIxs(arena, ix) : \A item \in YieldedItems : item.ix # c

OpenReachable(ar) ==
    {ix \in 1..Len(ar) : \A j \in ProperAncestors(ar, ix) : ar[j].is_open}

\* The paths test_traversal expects of the full traversal.
TestTraversalPaths ==
    { AbsPath(<<"var">>), AbsPath(<<"var", "games">>),
      AbsPath(<<"var", "games", "battleblock">>),
      AbsPath(<<"var", "games", "minesweeper">>),
      AbsPath(<<"var", "games", "spelunky">>), AbsPath(<<"var", "opt">>) }

\* C8: a traversal run to its end on a tree with an open root has yielded the
\* root and every node reachable from it through open nodes, and nothing
\* else; on the tree of test_traversal these are the six paths the test lists.
C8_RootAndOpenReachableYielded ==
    (trav = "done" /\ Root.is_open) =>
        /\ {item.ix : item \in YieldedItems} = OpenReachable(arena)
        /\ Len(arena) = Len(TestScript) + 1 =>
             {arena[item.ix].path : item \in YieldedItems} = TestTraversalPaths

\* What the code does on the tree of the tests: the root's count is 5 and the
\* traversal yields the five paths other than the root.
TestScenarioObserved ==
    Len(arena) = Len(TestScript) + 1 =>
        /\ Root.children_open_count = 5
        /\ trav = "done" =>
             /\ Len(yielded) = 5
             /\ {arena[item.ix].path : item \in YieldedItems}
                  = TestTraversalPaths \ {Root.path}

\* C9 as stated: the level of a yielded item is the number of open proper
\* ancestors of its node, the root being one of them.
C9_LevelCountsOpenAncestors ==
    \A item \in YieldedItems :
        item.level =
            Cardinality({j \in ProperAncestors(arena, item.ix) : arena[j].is_open})

\* C9 amended: the level of a yielded item is the number of open proper
\* ancestors of its node other than the root, which is the number of its
\* ancestors strictly between the root and itself.
C9_LevelCountsNonRootAncestors ==
    \A item \in YieldedItems \cup SlicedItems :
        /\ item.level =
             Cardinality({j \in ProperAncestors(arena, item.ix) \ {ROOT} :
                            arena[j].is_open})
        /\ item.level = Len(arena[item.ix].path.comps) - Len(Root.path.comps) - 1

\* The traversal has yielded a node at level 1 and, after leaving that
\* subtree, a later sibling of its parent at level 0, below an open root.
C9_Witness ==
    /\ Root.is_open
    /\ \E i \in 1..(Len(yielded) - 1) :
         /\ yielded[i].level = 1
         /\ yielded[i + 1].level = 0

Min(a, b) == IF a < b THEN a ELSE b

\* C10: the items of slice(k..k+n) are the items at positions k .. k+n-1,
\* cut at the end, of the sequence a fresh traversal yields, and
\* slice(0..total_len()) is that whole sequence.
C10_SliceIsWindow ==
    last.op = "slice" =>
        LET full == FullTraversal(arena)
        IN  /\ last.out =
                 SubSeq(full, last.start + 1, Min(last.start + last.len, Len(full)))
            /\ (last.start = 0 /\ last.len = TotalLen(arena)) => last.out = full

\* The part of the windowing statement that does not read total_len: it holds
\* whatever the cached counts are.
SliceIsSubRange ==
    last.op = "slice" =>
        LET full == FullTraversal(arena)
        IN  last.out =
              SubSeq(full, last.start + 1, Min(last.start + last.len, Len(full)))

\* The rows of a sequence that are not proper descendants of the node ix.
WithoutDescendants(ar, rows, ix) ==
    LET Keep(item) == ~ProperPrefix(ar[ix].path, ar[item.ix].path)
    IN  SelectSeq(rows, Keep)

\* C11: closing a visible non-root node leaves the traversal sequence without
\* exactly the proper descendants of that node, the other rows keeping their
\* order and depth; setting the flag back to true (the node was open, and no
\* create came in between) gives the sequence seen before closing.
C11_CloseReopenRoundTrip ==
    /\ last.op = "close" =>
         VisibleRows(arena) = WithoutDescendants(arena, last.before, last.ix)
    /\ (last.op = "reopen" /\ last.was_open) =>
         /\ last.closed = WithoutDescendants(arena, last.before, last.ix)
         /\ VisibleRows(arena) = last.before

\* An open node with a visible child, followed by a sibling, was closed and
\* reopened: the child left the rows and came back.
C11_Witness ==
    /\ last.op = "reopen"
    /\ last.was_open
    /\ Len(last.before) = 3
    /\ Len(last.closed) = 2
    /\ last.before[1].ix = last.ix

\* C12: once the tree is cloned, a create or an is_open write on one clone
\* leaves every node of the other clone, and its arena length, as they were.
C12_CloneIndependence ==
    [][ (Len(store.trees) = 2 /\ last'.op \in {"clone_create", "clone_set_open"}) =>
            Deref(store', 3 - last'.tree) = Deref(store, 3 - last'.tree) ]_vars

\* The clones differ at the root, which one of them has rewritten, and still
\* share the allocation of another node.
C12_Witness ==
    /\ Len(store.trees) = 2
    /\ last.op \in {"clone_create", "clone_set_open"}
    /\ store.trees[1][1] # store.trees[2][1]
    /\ Deref(store, 1)[1] # Deref(store, 2)[1]
    /\ \E i \in DOMAIN store.trees[1] :
         i \in DOMAIN store.trees[2] /\ store.trees[1][i] = store.trees[2][i]

\* The path has a final component and that component is valid text.
HasDisplayName(p) ==
    /\ p.comps # <<>>
    /\ p.comps[Len(p.comps)] \notin {"..", NonUtf8Name}

\* C13: file_name on a row whose path has no final component, or whose final
\* component is not valid text, gives the caller an explicit error outcome:
\* it neither aborts nor returns a string.
C13_NameFailureReported ==
    (last.op = "file_name" /\ ~HasDisplayName(arena[last.ix].path)) =>
        last.out.kind = "err"

\* The map entries, as <<holder, position>>, that refer to index ix.
Referrers(ar, ix) ==
    {r \in (1..Len(ar)) \X (1..Len(ar)) :
        /\ r[2] \in DOMAIN ar[r[1]].children
        /\ ar[r[1]].children[r[2]].ix = ix}

\* The ancestor paths of p below the root path, nearest the root first, p last.
ChainBelowRoot(ar, p) ==
    [n \in 1..(Len(p.comps) - Len(ar[ROOT].path.comps)) |->
        [abs |-> p.abs, comps |-> SubSeq(p.comps, 1, Len(ar[ROOT].path.comps) + n)]]

\* C14: in every reachable tree each non-root path is strictly below the root
\* path, no two slots hold the same path, each non-root node is an entry of
\* exactly one children map, that of the node holding its parent path, under
\* its own path as key, and the children lookups from ROOT along its ancestor
\* paths end at the node; no map refers to the root.
C14_StructuralInvariant ==
    /\ \A i \in 2..Len(arena) : ProperPrefix(Root.path, arena[i].path)
    /\ \A i, j \in 1..Len(arena) : i # j => arena[i].path # arena[j].path
    /\ Referrers(arena, ROOT) = {}
    /\ \A i \in 2..Len(arena) :
         /\ Cardinality(Referrers(arena, i)) = 1
         /\ \A r \in Referrers(arena, i) :
              /\ arena[r[1]].path = ParentPath(arena[i].path)
              /\ arena[r[1]].children[r[2]].key = arena[i].path
              /\ Len(arena[r[1]].path.comps) < Len(arena[i].path.comps)
         /\ Resolve(arena, ROOT, ChainBelowRoot(arena, arena[i].path)) = i

\* A create has just filled the arena: the root has two children and one of
\* them a child of its own.
C14_Witness ==
    /\ last.op = "create"
    /\ Len(arena) = MaxNodes
    /\ Len(Root.children) = 2
    /\ \E i \in 2..Len(arena) : Len(arena[i].children) = 1

\* C15: a call of next returns after at most one loop pass per stack frame
\* plus one; the items yielded before the first None are at most the non-root
\* nodes; an iterator that is called again and again returns None after
\* finitely many calls; and once it has returned None every later call
\* returns None.
C15_TraversalTerminates ==
    /\ [](Len(yielded) <= Len(arena) - 1)
    /\ [][ last'.op = "next" =>
             /\ LoopPasses(arena, stack) <= Len(stack) + 1
             /\ trav = "done" => (last'.ret = NoItem /\ trav' = "done") ]_vars
    /\ (trav = "live") ~> (trav \in {"done", "none"} /\ stack = <<>>)

\* The iterator has yielded every non-root node of a full arena, then None,
\* then None again from the empty stack.
C15_Witness ==
    /\ trav = "done"
    /\ stack = <<>>
    /\ last.op = "next"
    /\ last.ret = NoItem
    /\ Len(arena) = MaxNodes
    /\ Len(yielded) = Len(arena) - 1

\* C16: the root stays at index 1; no step shrinks the arena or changes the
\* path held at an index; the m nodes a create materializes take the indices
\* previous length + 1 .. + m in path order from the root to the target, and
\* the index create returns holds the target path from then on.
C16_AppendOnlyStableIndices ==
    /\ [](Len(arena) >= 1 /\ arena[ROOT].path = RootPath)
    /\ [][ /\ Len(arena') >= Len(arena)
           /\ \A i \in 1..Len(arena) : arena'[i].path = arena[i].path
           /\ (last'.op = "create" /\ last'.ret # None) =>
                LET path == last'.node.path
                    m == Cardinality(AbsentChain(arena, path))
                IN  /\ Len(arena') = Len(arena) + m
                    /\ \A j \in 1..m :
                         arena'[Len(arena) + j].path =
                            AbsPath(SubSeq(path.comps, 1, Len(path.comps) - m + j))
                    /\ m > 0 => last'.ret = Len(arena')
                    /\ arena'[last'.ret].path = path ]_vars

\* The tree test_create_node builds, with b for opt and a for games: the
\* second create got index 3 and the create below it index 4.
C16_Witness ==
    /\ last.op = "create"
    /\ last.ret = 4
    /\ Len(arena) = 4
    /\ arena[2].path = AbsPath(<<"var", "b">>)
    /\ arena[3].path = AbsPath(<<"var", "a">>)
    /\ Len(arena[4].path.comps) = 3
    /\ ChildIxs(arena, 3) = {4}

RemoveAt(s, k) == SubSeq(s, 1, k - 1) \o SubSeq(s, k + 1, Len(s))

C18_SliceSuppliesTotalLen ==
    (last.op = "slice" /\ last.start = 0 /\ last.len = TotalLen(arena)) =>
        Len(last.out) = TotalLen(arena)

\* What the code does: asked for total_len() rows, slice yields one row less,
\* the rows of the non-root nodes.
SliceLacksRootRow ==
    (last.op = "slice" /\ last.start = 0 /\ last.len = TotalLen(arena)) =>
        /\ Len(last.out) = TotalLen(arena) - 1
        /\ \A i \in DOMAIN last.out : last.out[i].ix # ROOT

\* What a tree says about its paths: for each path its flags and the set of
\* paths its children map links.
PathFacts(ar) ==
    {[path |-> ar[i].path, is_dir |-> ar[i].is_dir, is_open |-> ar[i].is_open,
      children |-> {ar[c].path : c \in ChildIxs(ar, i)}] : i \in 1..Len(ar)}

VisiblePaths(ar) == {ar[VisibleRows(ar)[i].ix].path : i \in DOMAIN VisibleRows(ar)}

\* C19: two trees that were given the same entries, each in its own order,
\* agree on the node paths, on the children of every path, on is_dir and
\* is_open of every path, on the root's children_open_count and on the
\* visible paths.
C19_IngestOrderIndependent ==
    (last.op = "ingest" /\ store.todo = <<{}, {}>>) =>
        /\ PathFacts(store.trees[1]) = PathFacts(store.trees[2])
        /\ store.trees[1][ROOT].children_open_count
             = store.trees[2][ROOT].children_open_count
        /\ VisiblePaths(store.trees[1]) = VisiblePaths(store.trees[2])

\* The part that does hold: the two trees agree on the paths and on the
\* children of every path.
IngestShapeAgrees ==
    (last.op = "ingest" /\ store.todo = <<{}, {}>>) =>
        {[path |-> f.path, children |-> f.children] : f \in PathFacts(store.trees[1])}
          = {[path |-> f.path, children |-> f.children] : f \in PathFacts(store.trees[2])}

\* The positions of yielded that hold a proper descendant of the node at
\* position i.
DescendantPositions(i) ==
    {j \in DOMAIN yielded :
        ProperPrefix(arena[yielded[i].ix].path, arena[yielded[j].ix].path)}

====
